---- MODULE Spec2Model ----
(***************************************************************************)
(* Model of src/utils.c (pgrds): resolution of an extension's properties   *)
(* (schema, old_version, new_version) from the statement's option list,    *)
(* the extension's control file and the search_path, and the lookup of an  *)
(* installed extension's version in pg_extension.                          *)
(*                                                                         *)
(* A call is one action.  ereport(ERROR)/elog(ERROR) leave the function by *)
(* a non-local jump: in the model the call's record gets the error code as *)
(* its status and every later statement of the call is skipped.  What the  *)
(* call did to the caller's variables, the collaborators it called (in     *)
(* order) and the resources it still holds when control leaves it are part *)
(* of the record.                                                          *)
(***************************************************************************)
EXTENDS Naturals, Sequences, FiniteSets, TLC

(* ------------------------------ bounds -------------------------------- *)

\* longest statement option list
MaxOpts == 2

\* most entries of a control file
MaxEntries == 2

\* longest search_path
MaxPath == 2

\* longest option list and control file of the call-sequence specification
MaxSeqLen == 1

(* ----------------------------- constants ------------------------------ *)

\* the C null pointer, for every pointer of the model
NULL == <<>>

\* a char * that points at the string s: no string, "NULL" and ""
\* included, is the null pointer
Str(s) == <<s>>

\* status of a call that has not left the function yet
RUNNING == "running"

\* normal return
OK == "ok"

\* errcode_for_file_access() with errno = ENOENT (AllocateFile found no file)
ERRCODE_UNDEFINED_FILE == "NotFoundError"

\* ParseConfigFp(..., ERROR, ...) on a file that is not key = value lines
ERRCODE_SYNTAX_ERROR == "MalformedArtifactError"

\* "no schema has been selected to create in"
ERRCODE_UNDEFINED_SCHEMA == "NoSchemaSelectedError"

\* "extension ... does not exist"
ERRCODE_UNDEFINED_OBJECT == "NotInstalledError"

\* elog(ERROR, "extversion is null")
ERRCODE_INTERNAL_ERROR == "InternalError"

\* get_share_path(my_exec_path, sharepath)
sharepath == "/usr/share/postgresql"

(* ------------------------------- data --------------------------------- *)

SeqsUpTo(S, n) == UNION {[1..k -> S] : k \in 0..n}

\* a DefElem of the statement's option list: defname, and arg, which is
\* NULL or points at a string Value (strVal(arg) is then that string)
DefElem(defname, arg) == [defname |-> defname, arg |-> arg]

\* a DefElem * that points at defel
Ref(defel) == <<defel>>

\* the DefElem a non-null DefElem * points at
Deref(d) == d[1]

\* a ConfigVariable of the parsed control file
ConfigVariable(name, value) == [name |-> name, value |-> value]

ExtNames == {"hstore", "citext"}

OptionNames == {"schema", "new_version", "old_version", "cascade"}

\* the option values of a statement; get_namespace_name and the control
\* files use other strings, so that the origin of a resolved value shows
OptionArg(defname) ==
    CASE defname = "schema" -> "s_opt"
      [] defname = "new_version" -> "v_opt"
      [] defname = "old_version" -> "o_opt"
      [] OTHER -> "true"

AllDefElems ==
    {DefElem(n, Str(OptionArg(n))) : n \in OptionNames}
        \cup {DefElem(n, NULL) : n \in OptionNames}

DefElems ==
    {DefElem(n, Str(OptionArg(n))) : n \in OptionNames}
        \cup {DefElem("schema", NULL)}

\* options whose value is the string "NULL"
DefElemsSpelledNull ==
    {DefElem("schema", Str("NULL")), DefElem("new_version", Str("NULL"))}

AllConfigVariables ==
    {ConfigVariable("default_version", v) : v \in {"1.0", "2.0", ""}}
        \cup {ConfigVariable("schema", v) : v \in {"ext", "ext2"}}
        \cup {ConfigVariable("comment", "text"),
              ConfigVariable("relocatable", "true")}

\* entries whose value is the string "NULL", and one that is not
ConfigVariablesSpelledNull ==
    { ConfigVariable("default_version", "NULL"),
      ConfigVariable("default_version", "2.0"),
      ConfigVariable("schema", "NULL") }

ConfigVariables ==
    { ConfigVariable("default_version", "1.0"),
      ConfigVariable("default_version", "2.0"),
      ConfigVariable("schema", "ext"),
      ConfigVariable("schema", "ext2"),
      ConfigVariable("comment", "text") }

\* a control file on disk, as ParseConfigFp reads it: the entries it appends
\* to the list line by line, and whether it reaches the end of the file
\* (wellformed) or meets a line that is not key = value after them
ConfigFile(wellformed, items) == [wellformed |-> wellformed, items |-> items]

Oids == {2200, 16384}

\* pg_namespace rows
NamespaceRows ==
    { [oid |-> 2200, nspname |-> "public"], [oid |-> 16384, nspname |-> "app"] }

\* a search path lists an oid once
IsPath(p) == \A i, j \in 1..Len(p) : p[i] = p[j] => i = j

SearchPaths == {p \in SeqsUpTo(Oids, MaxPath) : IsPath(p)}

Versions == {"1.0", "2.0", "NULL"}

\* pg_extension rows; extname is unique (ExtensionNameIndexId)
\* extversion is the stored text, or NULL for a null attribute
ExtensionRows ==
    [extname : ExtNames, extversion : {Str(v) : v \in Versions} \cup {NULL}]

Catalogs ==
    {c \in SUBSET ExtensionRows :
        \A r1, r2 \in c : r1.extname = r2.extname => r1 = r2}

VARIABLES
    extname,        \* the statement's extension name
    options,        \* the statement's option list (List of DefElem)
    files,          \* the control files on disk: file name -> ConfigFile
    search_path,    \* what fetch_search_path(false) returns: a list of oids
    pg_namespace,   \* the schemas that exist
    pg_extension,   \* the installed extensions
    pc,             \* "idle": between calls; "done": a call has left
    op,             \* the function that was called
    status,         \* how the call left: OK or the error raised
    schema,         \* the caller's char *schema
    old_version,    \* the caller's char *old_version
    new_version,    \* the caller's char *new_version
    retval,         \* what get_extension_current_version returned
    events,         \* the collaborators the call called, in order
    held,           \* the resources the call holds as control leaves it
    frame,          \* d_schema, d_new_version, d_old_version of the last call
    memo            \* one earlier call of fill_in_extension_properties

env == <<extname, options, files, search_path, pg_namespace, pg_extension>>

cells == <<schema, old_version, new_version>>

vars == <<extname, options, files, search_path, pg_namespace, pg_extension,
          pc, op, status, schema, old_version, new_version, retval, events,
          held, frame, memo>>

(* ------------------------- the call's record --------------------------- *)

\* a call entered with the caller's variables as they are
Enter(sch, old, new) ==
    [status |-> RUNNING, schema |-> sch, old_version |-> old,
     new_version |-> new, retval |-> NULL, events |-> <<>>, held |-> {}]

Running(st) == st.status = RUNNING

\* ereport(ERROR, (errcode(code), ...)): control leaves the function here
ereport(st, code) == [st EXCEPT !.status = code]

\* a collaborator is called
Call(st, what) == [st EXCEPT !.events = Append(@, what)]

Acquire(st, res) == [st EXCEPT !.held = @ \cup {res}]

Release(st, res) == [st EXCEPT !.held = @ \ {res}]

\* the function returns
Return(st) == IF Running(st) THEN [st EXCEPT !.status = OK] ELSE st

(* ---------------- parse_default_version_in_control_file ---------------- *)

\* snprintf(filename, MAXPGPATH, "%s/extension/%s.control", sharepath, extname)
\* (the names of the model are far shorter than MAXPGPATH: nothing is cut)
ControlFileName(name) == sharepath \o "/extension/" \o name \o ".control"

FileNames == {ControlFileName(e) : e \in ExtNames}

\* AllocateFile(filename, "r") finds the file
FileExists(fs, filename) == filename \in DOMAIN fs

\* ScanItem without the tests for NULL: an entry overwrites what is set
ScanItemOverwrite(item, out) ==
    IF item.name = "default_version"
    THEN [out EXCEPT !.version = Str(item.value)]
    ELSE IF item.name = "schema"
    THEN [out EXCEPT !.schema = Str(item.value)]
    ELSE out

\* one item of the ConfigVariable list against *version and *schema
ScanItem(item, out) ==
    IF out.version = NULL /\ item.name = "default_version"
    THEN [out EXCEPT !.version = Str(item.value)]
    ELSE IF out.schema = NULL /\ item.name = "schema"
    THEN [out EXCEPT !.schema = Str(item.value)]
    ELSE out

\* ScanItems walking the list from its tail
RECURSIVE ScanItemsFromTail(_, _)
ScanItemsFromTail(items, out) ==
    IF items = <<>> THEN out
    ELSE ScanItemsFromTail(SubSeq(items, 1, Len(items) - 1),
                           ScanItem(items[Len(items)], out))

\* for (item = head; item != NULL; item = item->next)
RECURSIVE ScanItems(_, _)
ScanItems(items, out) ==
    IF items = <<>> THEN out
    ELSE ScanItems(Tail(items), ScanItem(Head(items), out))

\* ParseOpenedFile without FreeFile(file)
ParseOpenedFileNoFreeFile(st, file) ==
    LET s1 == Call(st, "ParseConfigFp")
        s2 == IF file.items = <<>> THEN s1
              ELSE Acquire(s1, "ConfigVariables")
    IN  IF ~file.wellformed
        THEN ereport(s2, ERRCODE_SYNTAX_ERROR)
        ELSE LET out == ScanItems(file.items,
                                  [version |-> s2.new_version,
                                   schema |-> s2.schema])
                 s4 == [s2 EXCEPT !.new_version = out.version,
                                  !.schema = out.schema]
                 s5 == Release(Call(s4, "FreeConfigVariables"),
                               "ConfigVariables")
             IN  Release(s5, "filename")

\* the file is open: ParseConfigFp, FreeFile, the loop, the two frees.
\* ParseConfigFp allocates the entries as it reads them: at its error the
\* entries of the lines before the bad one are on the list, and the loop
\* has not run
ParseOpenedFile(st, file) ==
    LET s1 == Call(st, "ParseConfigFp")
        s2 == IF file.items = <<>> THEN s1
              ELSE Acquire(s1, "ConfigVariables")
    IN  IF ~file.wellformed
        THEN ereport(s2, ERRCODE_SYNTAX_ERROR)
        ELSE LET s3 == Release(Call(s2, "FreeFile"), "file")
                 out == ScanItems(file.items,
                                  [version |-> s3.new_version,
                                   schema |-> s3.schema])
                 s4 == [s3 EXCEPT !.new_version = out.version,
                                  !.schema = out.schema]
                 s5 == Release(Call(s4, "FreeConfigVariables"),
                               "ConfigVariables")
             IN  Release(s5, "filename")

\* parse_default_version_in_control_file taking a missing file for an
\* extension without metadata
parse_missing_file_as_empty(st, name, fs) ==
    LET filename == ControlFileName(name)
        s1 == Call(Acquire(st, "filename"), "AllocateFile")
    IN  IF ~FileExists(fs, filename)
        THEN Release(s1, "filename")
        ELSE ParseOpenedFile(Acquire(s1, "file"), fs[filename])

parse_default_version_in_control_file(st, name, fs) ==
    LET filename == ControlFileName(name)
        s1 == Call(Acquire(st, "filename"), "AllocateFile")
    IN  IF ~FileExists(fs, filename)
        THEN ereport(s1, ERRCODE_UNDEFINED_FILE)
        ELSE ParseOpenedFile(Acquire(s1, "file"), fs[filename])

(* ------------------- get_extension_current_version --------------------- *)

\* ScanRows without the scan key
ScanRowsWithoutKey(catalog, name) == catalog

\* systable_getnext on the scan of pg_extension with key extname = name:
\* the rows the scan can return
ScanRows(catalog, name) == {r \in catalog : r.extname = name}

\* the tuple is valid: heap_getattr, text_to_cstring, endscan, heap_close
ReadVersion(st, extTup) ==
    IF extTup.extversion = NULL
    THEN ereport(st, ERRCODE_INTERNAL_ERROR)
    ELSE LET s1 == [st EXCEPT !.retval = extTup.extversion]
             s2 == Release(Call(s1, "systable_endscan"), "extScan")
         IN  Release(Call(s2, "heap_close"), "extRel")

get_extension_current_version(st, name, catalog) ==
    LET s1 == Acquire(Call(st, "heap_open"), "extRel")
        s2 == Acquire(Call(s1, "systable_beginscan"), "extScan")
        s3 == Call(s2, "systable_getnext")
        rows == ScanRows(catalog, name)
    IN  IF rows = {}
        THEN ereport(s3, ERRCODE_UNDEFINED_OBJECT)
        ELSE Return(ReadVersion(s3, CHOOSE r \in rows : TRUE))

(* -------------------- fill_in_extension_properties --------------------- *)

\* three null DefElem pointers
NullLocals ==
    [d_schema |-> NULL, d_new_version |-> NULL, d_old_version |-> NULL]

\* the three locals left uninitialised: what the last call left there
LocalsUninitialised == frame

\* DefElem *d_schema = NULL, *d_new_version = NULL, *d_old_version = NULL
LocalsAtEntry == NullLocals

\* ReadOption taking any option that is not a version for the schema
ReadOptionElseSchema(defel, d) ==
    IF defel.defname = "new_version"
    THEN [d EXCEPT !.d_new_version = Ref(defel)]
    ELSE IF defel.defname = "old_version"
    THEN [d EXCEPT !.d_old_version = Ref(defel)]
    ELSE [d EXCEPT !.d_schema = Ref(defel)]

\* the body of foreach(lc, options)
ReadOption(defel, d) ==
    IF defel.defname = "schema" THEN [d EXCEPT !.d_schema = Ref(defel)]
    ELSE IF defel.defname = "new_version"
    THEN [d EXCEPT !.d_new_version = Ref(defel)]
    ELSE IF defel.defname = "old_version"
    THEN [d EXCEPT !.d_old_version = Ref(defel)]
    ELSE d

\* foreach(lc, options)
RECURSIVE ReadOptionList(_, _)
ReadOptionList(opts, d) ==
    IF opts = <<>> THEN d
    ELSE ReadOptionList(Tail(opts), ReadOption(Head(opts), d))

\* d && d->arg
HasArg(d) == d # NULL /\ Deref(d).arg # NULL

\* the three assignments from the options found
ApplyOptions(st, d) ==
    [st EXCEPT
        !.schema = IF HasArg(d.d_schema) THEN Deref(d.d_schema).arg ELSE @,
        !.old_version =
            IF HasArg(d.d_old_version) THEN Deref(d.d_old_version).arg
            ELSE @,
        !.new_version =
            IF HasArg(d.d_new_version) THEN Deref(d.d_new_version).arg
            ELSE @]

\* if (*new_version == NULL || *schema == NULL)
NeedsControlFile(st) == st.new_version = NULL \/ st.schema = NULL

\* get_namespace_name(oid): the schema's name, NULL when it is gone
get_namespace_name(nsp, oid) ==
    IF \E r \in nsp : r.oid = oid
    THEN Str((CHOOSE r \in nsp : r.oid = oid).nspname)
    ELSE NULL

\* llast_oid(search_path)
llast_oid(path) == path[Len(path)]

\* linitial_oid(search_path)
linitial_oid(path) == path[1]

\* DefaultCreationNamespace without the test of get_namespace_name's result
DefaultCreationNamespaceUnchecked(st, path, nsp) ==
    LET s1 == Call(st, "fetch_search_path")
    IN  IF path = <<>>
        THEN ereport(s1, ERRCODE_UNDEFINED_SCHEMA)
        ELSE LET s2 == Acquire(s1, "search_path")
                 name == get_namespace_name(nsp, linitial_oid(path))
                 s3 == [Call(s2, "get_namespace_name") EXCEPT !.schema = name]
             IN  Release(Call(s3, "list_free"), "search_path")

\* the block under if (*schema == NULL)
DefaultCreationNamespace(st, path, nsp) ==
    LET s1 == Call(st, "fetch_search_path")
    IN  IF path = <<>>
        THEN ereport(s1, ERRCODE_UNDEFINED_SCHEMA)
        ELSE LET s2 == Acquire(s1, "search_path")
                 name == get_namespace_name(nsp, linitial_oid(path))
                 s3 == [Call(s2, "get_namespace_name") EXCEPT !.schema = name]
             IN  IF name = NULL
                 THEN ereport(s3, ERRCODE_UNDEFINED_SCHEMA)
                 ELSE Release(Call(s3, "list_free"), "search_path")

\* fill_in_extension_properties with the search path before the control file
fill_in_search_path_first(st, name, opts, fs, path, nsp) ==
    LET d == ReadOptionList(opts, LocalsAtEntry)
        s1 == ApplyOptions(st, d)
        s2 == IF s1.schema = NULL
              THEN DefaultCreationNamespace(s1, path, nsp)
              ELSE s1
        s3 == IF Running(s2) /\ NeedsControlFile(s2)
              THEN parse_default_version_in_control_file(s2, name, fs)
              ELSE s2
    IN  Return(s3)

fill_in_extension_properties(st, name, opts, fs, path, nsp) ==
    LET d == ReadOptionList(opts, LocalsAtEntry)
        s1 == ApplyOptions(st, d)
        s2 == IF NeedsControlFile(s1)
              THEN parse_default_version_in_control_file(s1, name, fs)
              ELSE s1
        s3 == IF Running(s2) /\ s2.schema = NULL
              THEN DefaultCreationNamespace(s2, path, nsp)
              ELSE s2
    IN  Return(s3)

(* ------------------------------ inputs --------------------------------- *)

\* control files with a bad line: the first line, or the line after one
\* entry
MalformedFiles ==
    {ConfigFile(FALSE, <<>>)}
        \cup {ConfigFile(FALSE, <<v>>) : v \in ConfigVariables}

\* the control files the resolution specification draws from
ControlFiles ==
    MalformedFiles
        \cup {ConfigFile(TRUE, items) :
                items \in SeqsUpTo(ConfigVariables, MaxEntries)}

\* short control files over every entry kind
ShortControlFiles ==
    MalformedFiles
        \cup {ConfigFile(TRUE, <<>>)}
        \cup {ConfigFile(TRUE, <<v>>) : v \in AllConfigVariables}

\* the share directory with no control file, or with the one of name e
OneFile(e, contents) ==
    {<<>>} \cup {[f \in {ControlFileName(e)} |-> c] : c \in contents}

\* share directories with any of the control files
FileSystems(contents) ==
    UNION {[D -> contents] : D \in SUBSET FileNames}

\* the caller's variables before a call, and the rest of a state between
\* calls
Idle ==
    /\ pc = "idle"
    /\ op = "none"
    /\ status = "none"
    /\ schema = NULL
    /\ old_version = NULL
    /\ new_version = NULL
    /\ retval = NULL
    /\ events = <<>>
    /\ held = {}

\* statements of one extension: every option list against every control
\* file, search path and set of schemas
InitStatements ==
    /\ extname = "hstore"
    /\ options \in SeqsUpTo(DefElems, MaxOpts)
    /\ files \in OneFile("hstore", ControlFiles)
    /\ search_path \in SearchPaths
    /\ pg_namespace \in SUBSET NamespaceRows
    /\ pg_extension = {}

\* short statements of either extension against share directories with
\* either, both or no control file
InitShareDirectories ==
    /\ extname \in ExtNames
    /\ options \in {<<>>} \cup {<<o>> : o \in AllDefElems}
    /\ files \in FileSystems(ShortControlFiles)
    /\ search_path = <<2200>>
    /\ pg_namespace = NamespaceRows
    /\ pg_extension = {}

\* statements and control files whose values are the string "NULL", a
\* schema of that name included
InitSpelledNull ==
    /\ extname = "hstore"
    /\ options \in SeqsUpTo(DefElemsSpelledNull, MaxOpts)
    /\ files \in OneFile("hstore",
                         {ConfigFile(TRUE, items) :
                            items \in SeqsUpTo(ConfigVariablesSpelledNull,
                                               MaxEntries)})
    /\ search_path \in {<<>>, <<2200>>}
    /\ pg_namespace \in {NamespaceRows, {[oid |-> 2200, nspname |-> "NULL"]}}
    /\ pg_extension = {}

\* either extension against every pg_extension
InitCatalogs ==
    /\ extname \in ExtNames
    /\ options = <<>>
    /\ files = <<>>
    /\ search_path = <<2200>>
    /\ pg_namespace = NamespaceRows
    /\ pg_extension \in Catalogs

Init ==
    /\ \/ InitStatements
       \/ InitShareDirectories
       \/ InitSpelledNull
       \/ InitCatalogs
    /\ Idle
    /\ frame = NullLocals
    /\ memo = <<>>

(* ------------------------------ actions -------------------------------- *)

\* the call's record becomes the state the caller sees
Leave(st, fn) ==
    /\ pc' = "done"
    /\ op' = fn
    /\ status' = st.status
    /\ schema' = st.schema
    /\ old_version' = st.old_version
    /\ new_version' = st.new_version
    /\ retval' = st.retval
    /\ events' = st.events
    /\ held' = st.held

\* fill_in_extension_properties(extname, options, &schema, &old_version,
\* &new_version)
FillIn ==
    /\ pc = "idle"
    /\ Leave(fill_in_extension_properties(
                Enter(schema, old_version, new_version), extname, options,
                files, search_path, pg_namespace),
             "fill_in_extension_properties")
    /\ frame' = ReadOptionList(options, LocalsAtEntry)
    /\ UNCHANGED env

FillInExtensionProperties == FillIn /\ UNCHANGED memo

\* get_extension_current_version(extname)
GetExtensionCurrentVersion ==
    /\ pc = "idle"
    /\ Leave(get_extension_current_version(
                Enter(schema, old_version, new_version), extname,
                pg_extension),
             "get_extension_current_version")
    /\ UNCHANGED <<env, frame, memo>>

\* the caller is done with the call: its variables start NULL again, and
\* what an error left behind is gone with the aborted statement
NextStatement ==
    /\ pc = "done"
    /\ pc' = "idle"
    /\ op' = "none"
    /\ status' = "none"
    /\ schema' = NULL
    /\ old_version' = NULL
    /\ new_version' = NULL
    /\ retval' = NULL
    /\ events' = <<>>
    /\ held' = {}
    /\ UNCHANGED <<env, frame, memo>>

Next ==
    \/ FillInExtensionProperties
    \/ GetExtensionCurrentVersion
    \/ NextStatement

Spec == Init /\ [][Next]_vars

(* ------------------------ sequences of calls --------------------------- *)

\* the options and control files of the call-sequence specification
SeqOptions ==
    SeqsUpTo({DefElem("schema", Str("s_opt")),
              DefElem("new_version", Str("v_opt"))}, MaxSeqLen)

SeqControlFiles ==
    {ConfigFile(TRUE, items) :
        items \in SeqsUpTo({ConfigVariable("default_version", "1.0"),
                            ConfigVariable("schema", "ext")}, MaxSeqLen)}

\* the search path as the schemas it lists: each oid with the name it
\* resolves to
ResolvedSearchPath ==
    [i \in 1..Len(search_path) |->
        <<search_path[i], get_namespace_name(pg_namespace, search_path[i])>>]

\* what a call of fill_in_extension_properties is made with: extension
\* name, options, descriptor content, search path
CallKey == <<extname, options, files, ResolvedSearchPath>>

InitSeq ==
    /\ extname = "hstore"
    /\ options = <<>>
    /\ files = <<>>
    /\ search_path = <<2200>>
    /\ pg_namespace = NamespaceRows
    /\ pg_extension = {}
    /\ Idle
    /\ frame = NullLocals
    /\ memo = <<>>

\* the next statement's option list
NewStatement ==
    /\ pc = "idle"
    /\ options' \in SeqOptions
    /\ UNCHANGED <<extname, files, search_path, pg_namespace, pg_extension,
                   pc, op, status, cells, retval, events, held, frame, memo>>

\* a package is installed, upgraded or removed: the control file changes
PackageChange ==
    /\ pc = "idle"
    /\ files' \in OneFile(extname, SeqControlFiles)
    /\ UNCHANGED <<extname, options, search_path, pg_namespace, pg_extension,
                   pc, op, status, cells, retval, events, held, frame, memo>>

\* SET search_path
SetSearchPath ==
    /\ pc = "idle"
    /\ search_path' \in {<<>>, <<2200>>}
    /\ UNCHANGED <<extname, options, files, pg_namespace, pg_extension,
                   pc, op, status, cells, retval, events, held, frame, memo>>

\* DROP SCHEMA public, CREATE SCHEMA public
DropOrCreateSchema ==
    /\ pc = "idle"
    /\ pg_namespace' \in
          {NamespaceRows, {r \in NamespaceRows : r.nspname # "public"}}
    /\ UNCHANGED <<extname, options, files, search_path, pg_extension,
                   pc, op, status, cells, retval, events, held, frame, memo>>

\* a call of fill_in_extension_properties; memo keeps one call (what it was
\* made with and how it ended) and whether a call made with something else
\* has run since
FillInRemembered ==
    /\ FillIn
    /\ \/ /\ memo = <<>>
          /\ memo' \in {<<>>,
                        <<[key |-> CallKey,
                           outcome |-> <<status', schema', old_version',
                                         new_version'>>,
                           between |-> FALSE]>>}
       \/ /\ memo # <<>>
          /\ memo' = <<[memo[1] EXCEPT
                          !.between = @ \/ memo[1].key # CallKey]>>

NextSeq ==
    \/ NewStatement
    \/ PackageChange
    \/ SetSearchPath
    \/ DropOrCreateSchema
    \/ FillInRemembered
    \/ NextStatement

SpecSeq == InitSeq /\ [][NextSeq]_vars

(* ------------------- what the claims are stated in --------------------- *)

FillDone == pc = "done" /\ op = "fill_in_extension_properties"

GetDone == pc = "done" /\ op = "get_extension_current_version"

\* the positions of the options named key
OptionsNamed(key) == {i \in 1..Len(options) : options[i].defname = key}

\* the last option named key (the statement has one)
LastNamed(key) ==
    options[CHOOSE i \in OptionsNamed(key) :
                \A j \in OptionsNamed(key) : j <= i]

\* the statement gives a value for key
Supplied(key) == OptionsNamed(key) # {} /\ LastNamed(key).arg # NULL

SuppliedValue(key) == IF Supplied(key) THEN LastNamed(key).arg ELSE NULL

Descriptor == files[ControlFileName(extname)]

DescriptorMissing == ControlFileName(extname) \notin DOMAIN files

DescriptorParses == ~DescriptorMissing /\ Descriptor.wellformed

\* the positions of the descriptor's entries for key
EntriesFor(key) ==
    {i \in 1..Len(Descriptor.items) : Descriptor.items[i].name = key}

\* the value of the descriptor's first entry for key, NULL without one
FirstValue(key) ==
    IF EntriesFor(key) = {} THEN NULL
    ELSE Str(Descriptor.items[CHOOSE i \in EntriesFor(key) :
                                \A j \in EntriesFor(key) : i <= j].value)

\* the name of the schema with this oid, NULL when there is none
SchemaNamed(oid) ==
    IF \E r \in pg_namespace : r.oid = oid
    THEN Str((CHOOSE r \in pg_namespace : r.oid = oid).nspname)
    ELSE NULL

\* the positions of a collaborator's calls in the call's events
CallsOf(what) == {i \in 1..Len(events) : events[i] = what}

\* the resources claim C8 lists
ListedResources ==
    {"file", "ConfigVariables", "extRel", "extScan", "search_path"}

(* ------------------------------ claims --------------------------------- *)

\* C1 as stated: whenever fill_in_extension_properties returns without an
\* error, schema and new_version are both set and non-empty.
C1_SchemaAndNewVersionSet ==
    (FillDone /\ status = OK) =>
        /\ schema \notin {NULL, Str("")}
        /\ new_version \notin {NULL, Str("")}

\* C1 amended: whenever fill_in_extension_properties returns without an
\* error, schema is set; new_version is set exactly when the options supply
\* it or the descriptor has a default_version entry, and is otherwise left
\* unset, as old_version may be.
C1_SchemaSetNewVersionIfGiven ==
    (FillDone /\ status = OK) =>
        /\ schema # NULL
        /\ new_version # NULL <=>
              \/ Supplied("new_version")
              \/ DescriptorParses /\ EntriesFor("default_version") # {}

\* a call returned without an error and left new_version unset
C1_Witness ==
    /\ FillDone
    /\ status = OK
    /\ schema = Str("public")
    /\ new_version = NULL
    /\ DescriptorParses

\* C2: a field (new_version, schema) the options supply resolves to the
\* option's value whatever the descriptor contains; the descriptor fills
\* only the fields the options left unset.
C2_OptionsTakePrecedence ==
    (FillDone /\ status = OK) =>
        /\ Supplied("new_version") =>
              new_version = SuppliedValue("new_version")
        /\ Supplied("schema") => schema = SuppliedValue("schema")

\* the options give new_version, the descriptor was read for the schema and
\* has a default_version of its own
C2_Witness ==
    /\ FillDone
    /\ status = OK
    /\ Supplied("new_version")
    /\ ~Supplied("schema")
    /\ DescriptorParses
    /\ FirstValue("default_version") = Str("1.0")
    /\ new_version = Str("v_opt")
    /\ schema = Str("ext")

\* C3 as stated: every call made while the descriptor is missing fails with
\* NotFoundError and has changed none of schema, old_version, new_version.
C3_MissingDescriptorFailsUnchanged ==
    (FillDone /\ DescriptorMissing) =>
        /\ status = ERRCODE_UNDEFINED_FILE
        /\ schema = NULL
        /\ old_version = NULL
        /\ new_version = NULL

\* C3 amended: a call made while the descriptor is missing fails with
\* NotFoundError unless the options supply both new_version and schema (then
\* the descriptor is not opened and the call succeeds); when it fails, the
\* search path has not been consulted, and the outputs the options supply
\* have already been assigned their option values while the others are
\* unchanged.
C3_MissingDescriptorFailsAfterOptions ==
    (FillDone /\ DescriptorMissing) =>
        /\ schema = SuppliedValue("schema")
        /\ old_version = SuppliedValue("old_version")
        /\ new_version = SuppliedValue("new_version")
        /\ IF Supplied("new_version") /\ Supplied("schema")
           THEN status = OK /\ CallsOf("AllocateFile") = {}
           ELSE /\ status = ERRCODE_UNDEFINED_FILE
                /\ CallsOf("fetch_search_path") = {}

\* a call failed on the missing descriptor after it had assigned old_version
C3_Witness ==
    /\ FillDone
    /\ DescriptorMissing
    /\ status = ERRCODE_UNDEFINED_FILE
    /\ old_version = Str("o_opt")
    /\ new_version = NULL

\* C4: with schema absent from the options and from the descriptor, the call
\* returns the name of the first search-path entry exactly when the search
\* path is non-empty and that entry names a schema; otherwise it fails with
\* NoSchemaSelectedError; a later entry is never used.
C4_FirstSearchPathEntryOnly ==
    (/\ FillDone
     /\ DescriptorParses
     /\ ~Supplied("schema")
     /\ EntriesFor("schema") = {}) =>
        IF search_path # <<>> /\ SchemaNamed(search_path[1]) # NULL
        THEN status = OK /\ schema = SchemaNamed(search_path[1])
        ELSE status = ERRCODE_UNDEFINED_SCHEMA

\* the first entry no longer names a schema, the second does, and the call
\* failed
C4_Witness ==
    /\ FillDone
    /\ DescriptorParses
    /\ ~Supplied("schema")
    /\ EntriesFor("schema") = {}
    /\ Len(search_path) = 2
    /\ SchemaNamed(search_path[1]) = NULL
    /\ SchemaNamed(search_path[2]) # NULL
    /\ status = ERRCODE_UNDEFINED_SCHEMA

\* C5: of several descriptor entries for default_version (or schema) the
\* first in file order gives the value; later ones and entries with other
\* keys are ignored.
C5_FirstOccurrenceWins ==
    (/\ FillDone
     /\ DescriptorParses
     /\ status \in {OK, ERRCODE_UNDEFINED_SCHEMA}) =>
        /\ (~Supplied("new_version")) =>
              new_version = FirstValue("default_version")
        /\ (~Supplied("schema") /\ EntriesFor("schema") # {}) =>
              schema = FirstValue("schema")
        /\ old_version = SuppliedValue("old_version")

\* default_version = "1.0" followed by default_version = "2.0"
C5_Witness ==
    /\ FillDone
    /\ DescriptorParses
    /\ options = <<>>
    /\ Len(Descriptor.items) = 2
    /\ Descriptor.items[1] = ConfigVariable("default_version", "1.0")
    /\ Descriptor.items[2] = ConfigVariable("default_version", "2.0")
    /\ new_version = Str("1.0")

\* the options with a key fill_in_extension_properties looks for
Recognized(opts) ==
    SelectSeq(opts,
              LAMBDA o : o.defname \in {"schema", "old_version", "new_version"})

\* C7: options with any other key than schema, old_version, new_version
\* raise no error and do not change the outcome: the call ends as the call
\* with those options removed does.
C7_UnrecognizedOptionsIgnored ==
    FillDone =>
        LET r == fill_in_extension_properties(
                    Enter(NULL, NULL, NULL), extname, Recognized(options),
                    files, search_path, pg_namespace)
        IN  <<status, schema, old_version, new_version>> =
                <<r.status, r.schema, r.old_version, r.new_version>>

\* an unrecognized option stands before a recognized one
C7_Witness ==
    /\ FillDone
    /\ Len(options) = 2
    /\ options[1].defname = "cascade"
    /\ options[2].defname = "new_version"
    /\ status = OK
    /\ new_version = Str("v_opt")

\* C8 as stated: at every exit of a core operation, error exits included,
\* the call has released the file handle, the entry list, the catalog
\* relation, the scan and the search-path list it acquired.
C8_ReleasedAtEveryExit ==
    pc = "done" => held \cap ListedResources = {}

\* C8 amended: at every successful exit the call itself has released every
\* resource it acquired; at an error exit it has not: a malformed descriptor
\* leaves the file open and the entries parsed before the bad line
\* allocated, a missing catalog row leaves the relation and the scan open, a
\* first search-path entry that names no schema leaves the search-path list
\* allocated (and both descriptor errors leave the file name buffer); these
\* are left to the host's cleanup of the aborted statement.
C8_ReleasedAtSuccessfulExit ==
    pc = "done" =>
        held =
            CASE status = OK -> {}
              [] status = ERRCODE_UNDEFINED_FILE -> {"filename"}
              [] status = ERRCODE_SYNTAX_ERROR ->
                    {"filename", "file"}
                        \cup IF Descriptor.items = <<>> THEN {}
                             ELSE {"ConfigVariables"}
              [] status = ERRCODE_UNDEFINED_SCHEMA ->
                    IF search_path = <<>> THEN {} ELSE {"search_path"}
              [] OTHER -> {"extRel", "extScan"}

\* a successful call that opened the descriptor and fetched the search path
C8_Witness ==
    /\ FillDone
    /\ status = OK
    /\ CallsOf("FreeFile") # {}
    /\ CallsOf("FreeConfigVariables") # {}
    /\ CallsOf("list_free") # {}
    /\ held = {}

\* C10: one call goes options, descriptor, search path: the descriptor is
\* opened at most once, and exactly when new_version or schema is unset
\* after the options; the search path is fetched only after the descriptor
\* was opened and only with schema still unset; a call that needs both and
\* finds no descriptor raises NotFoundError, not NoSchemaSelectedError.
C10_OptionsDescriptorSearchPath ==
    FillDone =>
        /\ Cardinality(CallsOf("AllocateFile")) <= 1
        /\ CallsOf("AllocateFile") # {} <=>
              ~(Supplied("new_version") /\ Supplied("schema"))
        /\ \A i \in CallsOf("fetch_search_path") :
              /\ \E j \in CallsOf("AllocateFile") : j < i
              /\ ~Supplied("schema")
              /\ DescriptorParses
              /\ EntriesFor("schema") = {}
        /\ (~Supplied("schema") /\ DescriptorMissing) =>
              status = ERRCODE_UNDEFINED_FILE

\* no schema option, no descriptor and an empty search path: NotFoundError
C10_Witness ==
    /\ FillDone
    /\ ~Supplied("schema")
    /\ DescriptorMissing
    /\ search_path = <<>>
    /\ status = ERRCODE_UNDEFINED_FILE
    /\ events = <<"AllocateFile">>

\* C6: get_extension_current_version fails with NotInstalledError when
\* pg_extension has no row for extname, returns exactly the version stored
\* in the row when there is one, and leaves pg_extension as it was.
C6_CurrentVersionFromCatalog ==
    /\ [](GetDone =>
            LET rows == {r \in pg_extension : r.extname = extname}
            IN  IF rows = {}
                THEN status = ERRCODE_UNDEFINED_OBJECT /\ retval = NULL
                ELSE \A r \in rows :
                        r.extversion # NULL =>
                            status = OK /\ retval = r.extversion)
    /\ [][(op' = "get_extension_current_version") =>
            pg_extension' = pg_extension]_vars

\* the extension's stored version was returned though another extension is
\* installed at another version
C6_Witness ==
    /\ GetDone
    /\ status = OK
    /\ retval = Str("2.0")
    /\ \E r \in pg_extension : r.extname # extname /\ r.extversion = Str("1.0")

\* C9: two calls of fill_in_extension_properties made with the same
\* extension name, options, descriptor content and search path (the schemas
\* it lists) end the same way, same values or same error, whatever calls ran
\* before or between them.
C9_SameCallSameOutcome ==
    (FillDone /\ memo # <<>> /\ memo[1].key = CallKey) =>
        memo[1].outcome = <<status, schema, old_version, new_version>>

\* the remembered call is repeated after a call made with something else
C9_Witness ==
    /\ FillDone
    /\ memo # <<>>
    /\ memo[1].between
    /\ memo[1].key = CallKey
    /\ options = <<>>
    /\ status = OK
    /\ new_version = Str("1.0")
    /\ frame = NullLocals

====
